---- MODULE Spec2Model ----
(***************************************************************************)
(* The WebSocket session of the transactor client                          *)
(* (src/src/services/transactor/backend/ws.rs): connect(), the pump task   *)
(* socket_task, the keepalive task ping_task, and the calls made through   *)
(* send_and_wait, with the server and the socket as the environment; and   *)
(* the subscriptions fed by the session's broadcast channel                *)
(* (src/src/services/transactor/subscription.rs). Beside the session: the  *)
(* request-building functions of the HTTP clients (kvs.rs, pulse.rs,       *)
(* transactor/backend/http.rs) and the matching of raw broadcast items     *)
(* against the transaction shapes (core/tx.rs).                            *)
(***************************************************************************)
EXTENDS Integers, Sequences, FiniteSets, TLC

\* ------------------------------------------------------------------ bounds
\* Calls (get/post and keepalive pings) submitted on a session. Each call is
\* its own future, so up to MaxCalls callers are in flight at once.
MaxCalls == 2
\* Live WsBackend clones (Arc strong count).
MaxClones == 2
\* Runs of answered calls (socket_task_served) on a long-lived session.
MaxRuns == 3
\* Transactions the server pushes on a session with a subscriber.
MaxTx == 3
\* Documents in a findAll result.
MaxItems == 2
\* The capacity of the broadcast channel: stands for the 128 of
\* broadcast::channel::<Value>(128), which behaves alike at every capacity.
BroadcastCap == 2

\* --------------------------------------------------------- program values
\* AtomicI32: the request-id counter is a 32-bit signed integer.
I32Max == 2147483647
I32Min == (-I32Max) - 1

\* The long-lived session (LongSpec) makes one call more.
Calls == 1..(MaxCalls + 1)

\* ReqId: a tagged union; the derived Eq/Hash compare the tag and the value.
Num(i) == [tag |-> "Num", v |-> i]
Str(i) == [tag |-> "Str", v |-> i]
\* Response.id = None
NoId == [tag |-> "None", v |-> 0]

\* The results a Response may carry: absent, the literals the pump compares
\* with ("hello", "ping"), a JSON array, and any other value.
Results == {"none", "hello", "ping", "list", "value"}

\* AtomicI32::fetch_add(1) wraps around on overflow.
fetch_add(x) == IF x = I32Max THEN I32Min ELSE x + 1

\* Whether id p is one of the ids fetch_add hands out from x up to, and not
\* including, t (x # t; the run wraps around when t < x).
InRun(p, x, t) ==
    IF x < t THEN p >= x /\ p < t ELSE p >= x \/ p < t

\* Where a run of answered calls may leave the counter: at the last positive
\* id, and at the id of the HELLO request.
RunTargets == {I32Max, -1}

\* encode_message: a binary frame in binary mode, a text frame otherwise.
encode_message_text(what, mode) == [what |-> what, binary |-> FALSE]
encode_message(what, mode) == [what |-> what, binary |-> mode]

\* pending.remove(id): the entry whose key equals the response's id, if any.
pending_find_untagged(pend, rid) ==
    {k \in DOMAIN pend : rid.tag # "None" /\ k.v = rid.v}
pending_any(pend, rid) ==
    IF DOMAIN pend = {} \/ rid = NoId THEN {} ELSE {CHOOSE k \in DOMAIN pend : TRUE}
pending_find(pend, rid) == {k \in DOMAIN pend : k = rid}

\* pending.insert(id.into(), reply_tx): the entry is added; an entry already
\* stored under that key is replaced (and its sender dropped).
pending_insert(pend, id, i) ==
    [k \in DOMAIN pend \cup {Num(id)} |-> IF k = Num(id) THEN i ELSE pend[k]]

\* hello_tx.take(): Some only the first time.
hello_take_always(tx) == TRUE
hello_take(tx) == tx

\* The match on timeout(opts.hello_timeout, hello_rx).await in connect(): rx is
\* the state of the one-shot channel when connect() is polled; the timer
\* decides only while the channel is still empty.
connect_match_ok_on_closed(rx) ==
    CASE rx = "ok" -> "ok"
      [] rx = "closed" -> "ok"
      [] OTHER -> "timed out waiting for HELLO"
connect_match_same_error(rx) ==
    CASE rx = "ok" -> "ok"
      [] rx = "closed" -> "timed out waiting for HELLO"
      [] OTHER -> "timed out waiting for HELLO"
connect_match(rx) ==
    CASE rx = "ok" -> "ok"
      [] rx = "closed" -> "HELLO channel closed unexpectedly"
      [] OTHER -> "timed out waiting for HELLO"

\* Response::into_result: the error if there is one, the response otherwise.
into_result_result_first(r) ==
    IF r.result # "none" THEN "OkSome" ELSE IF r.error THEN "Err" ELSE "OkNone"
into_result(r) ==
    IF r.error THEN "Err" ELSE IF r.result = "none" THEN "OkNone" ELSE "OkSome"

\* One call of send_and_wait and its one-shot reply channel. st: "new" (not
\* made yet), "open" (awaiting, nothing sent), "value" (awaiting, fulfilled),
\* "dropped" (awaiting, sender dropped), "returned". id: the request id the
\* pump gave it; rid: the id of the response that fulfilled it; val: what it
\* was fulfilled with, or what send_and_wait returned.
Call(st, id, rid, val) == [st |-> st, id |-> id, rid |-> rid, val |-> val]
NewCall == Call("new", 0, NoId, "none")
OpenCall == Call("open", 0, NoId, "none")
DroppedCall == Call("dropped", 0, NoId, "none")
\* A call whose Command the queue did not take: send handed it back, and it
\* was dropped with its reply_tx.
UnsentCall == Call("dropped", 0, NoId, "unsent")
Awaiting == {"open", "value", "dropped"}

\* send_and_wait after reply_rx.await: what the caller gets.
reply_outcome(c) ==
    CASE c.st = "dropped" -> "connection closed before reply"
      [] c.st = "value" /\ c.val = "Err" -> "service error"
      [] c.st = "value" /\ c.val = "OkNone" -> "server didn't return a result"
      [] OTHER -> "ok"
Returned(c) == Call("returned", 0, NoId, reply_outcome(c))

Range(s) == {s[i] : i \in DOMAIN s}
Max(a, b) == IF a >= b THEN a ELSE b

\* ---------------------------------------------------- the broadcast channel
\* A pushed transaction: the class of the document it is about (tx.doc.obj
\* .class), and its place among the values the channel has taken.
Tx(class, seq) == [class |-> class, seq |-> seq]
NoTx == Tx("none", 0)
\* The class a subscription is about, and any other class.
Classes == {"C", "other"}

\* A broadcast::Receiver: the values it has not read yet, oldest first, and
\* whether values it had not read were overwritten since it last read.
Receiver(q, lagged) == [q |-> q, lagged |-> lagged]
NoReceiver == Receiver(<<>>, FALSE)

\* Sender::send as one receiver sees it: the value is stored; when the
\* receiver is a full channel behind, its oldest unread value is overwritten
\* and the receiver is marked as lagging. The sender never waits.
rx_push(rx, tx) ==
    IF Len(rx.q) < BroadcastCap
    THEN Receiver(Append(rx.q, tx), rx.lagged)
    ELSE Receiver(Append(Tail(rx.q), tx), TRUE)

\* for tx in tx_array { tx_broadcast.send(tx) }: classes are the classes of
\* the array's elements, the first of which becomes value number seq.
RECURSIVE rx_push_all_reversed(_, _, _)
rx_push_all_reversed(rx, classes, seq) ==
    IF classes = <<>> THEN rx
    ELSE rx_push_all_reversed(rx_push(rx, Tx(classes[Len(classes)], seq)),
                              SubSeq(classes, 1, Len(classes) - 1), seq + 1)
RECURSIVE rx_push_all(_, _, _)
rx_push_all(rx, classes, seq) ==
    IF classes = <<>> THEN rx
    ELSE rx_push_all(rx_push(rx, Tx(Head(classes), seq)), Tail(classes), seq + 1)

\* Receiver::try_recv: Lagged once after values were overwritten (the receiver
\* then goes on from the oldest value kept), else the oldest unread value,
\* else Closed when every Sender is gone, else Empty.
try_recv(rx, closed) ==
    IF rx.lagged
    THEN [res |-> "Lagged", tx |-> NoTx, rx |-> Receiver(rx.q, FALSE)]
    ELSE IF rx.q # <<>>
    THEN [res |-> "Ok", tx |-> Head(rx.q), rx |-> Receiver(Tail(rx.q), FALSE)]
    ELSE IF closed
    THEN [res |-> "Closed", tx |-> NoTx, rx |-> rx]
    ELSE [res |-> "Empty", tx |-> NoTx, rx |-> rx]

\* ------------------------------------------------------ SubscribedQuery<Q, T>
\* tx.doc.obj.class != self.class decides whether a transaction is skipped.
class_matches_any(class) == TRUE
class_matches(class) == class = "C"

\* What the last poll_next returned (ret: "none" before the first poll, "Pending",
\* "Item", "Err", "End"), what the receiver reported to that poll (saw:
\* "none", "match", "lag", "closed", "empty"), and how many transactions of
\* other classes that poll skipped.
Poll(ret, saw, skipped) == [ret |-> ret, saw |-> saw, skipped |-> skipped]
NotPolled == Poll("none", "none", 0)

\* A SubscribedQuery<Q, T>. st: "none" (not created), or its
\* SubscriptionState; call: the call of the fetch task it holds the JoinHandle
\* of; items: the documents left in self.items, each the place it has in the
\* result of the fetch; rx: self.tx_rx.
Sub(st, c, items, rx, last) ==
    [st |-> st, call |-> c, items |-> items, rx |-> rx, last |-> last]
NoSub == Sub("none", 0, <<>>, NoReceiver, NotPolled)

\* The Waiting arm of poll_next, repeated while it continues on its own: the
\* state it leaves ("Initial": a fetch is due; "Waiting"), what is left in the
\* receiver, and what the poll returns there ("none": the loop goes on).
RECURSIVE waiting(_, _, _)
waiting(rx, closed, skipped) ==
    LET r == try_recv(rx, closed)
    IN CASE r.res = "Ok" /\ ~class_matches(r.tx.class) ->
                waiting(r.rx, closed, skipped + 1)
         [] r.res = "Ok" ->
                [st |-> "Initial", rx |-> r.rx, last |-> Poll("none", "match", skipped)]
         [] r.res = "Lagged" ->
                [st |-> "Initial", rx |-> r.rx, last |-> Poll("none", "lag", skipped)]
         [] r.res = "Closed" ->
                [st |-> "Waiting", rx |-> r.rx, last |-> Poll("End", "closed", skipped)]
         [] OTHER ->
                [st |-> "Waiting", rx |-> r.rx, last |-> Poll("Pending", "empty", skipped)]

\* ------------------------------------------------------------- live_query<C>
\* An item a live_query stream yields: the Initial snapshot, a Polled event
\* (seq: the pushed transaction it wraps), or an error ("Lagged", "Err").
Item(kind, seq) == [kind |-> kind, seq |-> seq]

\* A live_query stream. st: "none" (not created), "Fetching" (the initial
\* findAll is in flight), "Streaming", "Ended"; call: the call of the initial
\* fetch; rx: the receiver of its SubscribedQuery<C>; out: the items it has
\* yielded so far.
Live(st, c, rx, out) == [st |-> st, call |-> c, rx |-> rx, out |-> out]
NoLive == Live("none", 0, NoReceiver, <<>>)

\* Whether the stream may yield events of its subscription: only once the
\* Initial snapshot has been yielded.
live_ready_always(st) == st \in {"Fetching", "Streaming"}
live_ready(st) == st = "Streaming"

\* SubscribedQuery<C>, one poll: transactions of other classes are skipped; a
\* lag is an error item; a transaction of the class is an event; a closed
\* channel ends the stream. What is left in the receiver, and the item
\* yielded ("Pending", "End": none).
RECURSIVE subscribed_next(_, _)
subscribed_next(rx, closed) ==
    LET r == try_recv(rx, closed)
    IN CASE r.res = "Ok" /\ ~class_matches(r.tx.class) -> subscribed_next(r.rx, closed)
         [] r.res = "Ok" -> [rx |-> r.rx, item |-> Item("Polled", r.tx.seq)]
         [] r.res = "Lagged" -> [rx |-> r.rx, item |-> Item("Lagged", 0)]
         [] r.res = "Closed" -> [rx |-> r.rx, item |-> Item("End", 0)]
         [] OTHER -> [rx |-> r.rx, item |-> Item("Pending", 0)]

\* ------------------------------------------------------- the HTTP clients
\* An operation that builds or interprets an HTTP request, its arguments and
\* what it returned.
Http(fn, arg, ret) == [fn |-> fn, arg |-> arg, ret |-> ret]
NoHttp == Http("none", <<>>, <<>>)

\* StatusCode::is_success: 200..=299.
is_success(status) == status >= 200 /\ status < 300

\* KvsClient::get on the response the HTTP client returned: resp.sent is
\* whether send() returned a response at all, resp.read whether its body could
\* be read to the end.
kvs_get_404_is_error(resp) ==
    IF ~resp.sent THEN [kind |-> "Err", error |-> "Request"]
    ELSE IF is_success(resp.status)
    THEN IF resp.read THEN [kind |-> "Some", bytes |-> resp.body]
         ELSE [kind |-> "Err", error |-> "Request"]
    ELSE IF resp.read
         THEN [kind |-> "Err", error |-> "HttpError", status |-> resp.status,
               body |-> resp.body]
         ELSE [kind |-> "Err", error |-> "Request"]
kvs_get(resp) ==
    IF ~resp.sent THEN [kind |-> "Err", error |-> "Request"]
    ELSE IF is_success(resp.status)
    THEN IF resp.read THEN [kind |-> "Some", bytes |-> resp.body]
         ELSE [kind |-> "Err", error |-> "Request"]
    ELSE IF resp.status = 404 THEN [kind |-> "None"]
    ELSE IF resp.read
         THEN [kind |-> "Err", error |-> "HttpError", status |-> resp.status,
               body |-> resp.body]
         ELSE [kind |-> "Err", error |-> "Request"]

\* The responses a key-value server may give: every status code, two bodies.
Responses ==
    {[sent |-> TRUE, status |-> st, body |-> b, read |-> rd] :
        st \in 100..599, b \in {"", "bytes"}, rd \in BOOLEAN}
    \cup {[sent |-> FALSE, status |-> 0, body |-> "", read |-> FALSE]}

\* api_methods!: the registry of methods, each with its spelling in an HTTP
\* path (kebab) and on the WebSocket (camel).
Methods == {"Account", "FindAll", "EnsurePerson", "Tx", "Request", "Event", "Ping", "Hello"}
kebab(m) ==
    CASE m = "Account" -> "account"
      [] m = "FindAll" -> "find-all"
      [] m = "EnsurePerson" -> "ensure-person"
      [] m = "Tx" -> "tx"
      [] m = "Request" -> "request"
      [] m = "Event" -> "event"
      [] m = "Ping" -> "ping"
      [] m = "Hello" -> "hello"
camel(m) ==
    CASE m = "Account" -> "account"
      [] m = "FindAll" -> "findAll"
      [] m = "EnsurePerson" -> "ensurePerson"
      [] m = "Tx" -> "tx"
      [] m = "Request" -> "domainRequest"
      [] m = "Event" -> "event"
      [] m = "Ping" -> "ping"
      [] m = "Hello" -> "hello"

\* serde_json::Value: a string, or a value of another type; s is its content.
JsonValue(type, s) == [type |-> type, s |-> s]
JsonValues ==
    {JsonValue("String", "a"), JsonValue("Object", "o"), JsonValue("Null", "")}
\* Value::to_string: the JSON text of a value (a string in its quotes).
JsonText(value) == [text |-> "json", of |-> value]
\* A string taken as it is.
RawText(s) == [text |-> "raw", of |-> JsonValue("String", s)]

\* get_path: the URL of base.join(path) with the params appended to its query,
\* a Value::String as the bare string, another value as its JSON text. A URL
\* is its path, as segments, and its query pairs.
get_path(path, params) ==
    [path |-> path,
     query |-> [k \in DOMAIN params |->
                  [name |-> params[k][1],
                   value |-> IF params[k][2].type = "String"
                             THEN RawText(params[k][2].s)
                             ELSE JsonText(params[k][2])]]]

\* HttpBackend::domain_request: the URL it asks for.
domain_request_url(domain, operation, workspace, params) ==
    get_path(<<"api", "v1", kebab("Event"), domain, operation, workspace>>,
             <<<<"params", params>>>>)

\* A Url: its scheme and the segments of its path ("/" is one empty segment;
\* "/api/" is "api" and an empty segment).
Url(scheme, path) == [scheme |-> scheme, path |-> path]
Front(p) == SubSeq(p, 1, Len(p) - 1)
Last(p) == p[Len(p)]
\* url.path().ends_with("/ws"), url.path().ends_with("/api/")
ends_with_ws(p) == Last(p) = "ws"
ends_with_api(p) == Len(p) >= 2 /\ Last(p) = "" /\ p[Len(p) - 1] = "api"
\* PathSegmentsMut::pop and push: pop takes the last segment off (the path
\* "/" is left when it was the only one); push adds a segment after a slash,
\* or fills the empty path "/".
segments_pop(p) == IF Len(p) <= 1 THEN <<"">> ELSE Front(p)
segments_push(p, seg) == IF p = <<"">> THEN <<seg>> ELSE Append(p, seg)

\* ForceHttpScheme::force_http_scheme for the schemes it is called with.
force_http_scheme_plain(scheme) == "http"
force_http_scheme(scheme) == IF scheme = "wss" THEN "https" ELSE "http"

\* make_rest_api_endpoint: the URL it returns, or the error InvalidPulseUrl.
make_rest_api_endpoint_url(url) ==
    LET u == IF url.scheme \in {"ws", "wss"} /\ ends_with_ws(url.path)
             THEN Url(force_http_scheme(url.scheme),
                      segments_push(segments_push(segments_pop(url.path), "api"), ""))
             ELSE url
    IN IF u.scheme \notin {"http", "https"} \/ ~ends_with_api(u.path)
       THEN [kind |-> "Err", error |-> "InvalidPulseUrl"]
       ELSE [kind |-> "Ok", url |-> u]

\* The URLs given to it: five schemes, paths of one to three segments.
Segments == {"ws", "api", "", "path"}
Paths == {<<a>> : a \in Segments} \cup {<<a, b>> : a \in Segments, b \in Segments}
         \cup {<<a, b, c>> : a \in Segments, b \in Segments, c \in Segments}
Urls == {Url(sc, p) : sc \in {"ws", "wss", "http", "https", "ftp"}, p \in Paths}

\* ------------------------------------------------------------ Event::matches
\* core::class: the classes of the three transactions about a document.
TxCreateDoc == "core:class:TxCreateDoc"
TxUpdateDoc == "core:class:TxUpdateDoc"
TxRemoveDoc == "core:class:TxRemoveDoc"

\* A raw broadcast item, as far as matches looks at it: what value.get gives
\* for "_class" and for "objectClass", a JsonValue, or Absent for a key that
\* is missing or a value that is no object.
Absent == JsonValue("Absent", "")
RawItem(c, oc) == [_class |-> c, objectClass |-> oc]
\* Value::as_str: Some for a string only (a sequence of one is Some).
as_str(v) == IF v.type = "String" THEN <<v.s>> ELSE <<>>

\* <TxCreateDoc<T> as Event>::matches
TxCreateDoc_matches_any_class(T, value) ==
    as_str(value._class) = <<TxCreateDoc>>
TxCreateDoc_matches(T, value) ==
    IF as_str(value._class) # <<TxCreateDoc>> THEN FALSE
    ELSE as_str(value.objectClass) = <<T>>
\* <TxUpdateDoc<C> as Event>::matches
TxUpdateDoc_matches(C, value) ==
    IF as_str(value._class) # <<TxUpdateDoc>> THEN FALSE
    ELSE as_str(value.objectClass) = <<C>>
\* <TxRemoveDoc<C> as Event>::matches
TxRemoveDoc_matches(C, value) ==
    IF as_str(value._class) # <<TxRemoveDoc>> THEN FALSE
    ELSE as_str(value.objectClass) = <<C>>

\* A raw item matched against the three shapes for the document class C.
Matched(C, value, create, update, remove) ==
    [class |-> C, value |-> value, create |-> create, update |-> update,
     remove |-> remove]
NotMatched == Matched("none", RawItem(Absent, Absent), FALSE, FALSE, FALSE)

\* The document classes streams are made for, and the values a field of a
\* raw item may have: none, a number, or a string, which is the class of a
\* transaction or of a document.
DocClasses == {"C", "other"}
FieldValues ==
    {Absent, JsonValue("Number", "1")} \cup
    {JsonValue("String", x) :
        x \in {TxCreateDoc, TxUpdateDoc, TxRemoveDoc, "core:class:TxDomainEvent"}
              \cup DocClasses}
RawItems == {RawItem(c, oc) : c \in FieldValues, oc \in FieldValues}

VARIABLES
    conn,               \* connect(): "waiting", or the result it returned
    refs,               \* live WsBackend clones of the session
    opts,               \* WsBackendOpts.binary, the client's preference
    pump,               \* socket_task: "hello", "loop", "done"
    cmd_rx,             \* the command queue: the calls of the queued Commands
    pending,            \* the correlation table: ReqId -> call
    next_id,            \* the request-id counter
    binary_mode,        \* the pump's current frame encoding
    hello_tx,           \* TRUE while the pump holds Some(hello_tx)
    hello_rx,           \* the handshake channel: "empty", "ok", "closed"
    sock,               \* "open", "ended" (read.next() returned None), "closed"
    ping,               \* ping_task: "sleep", "await", "done"
    last_ping_response, \* ping_task: last_ping_response.is_some()
    ping_call,          \* the call ping_task awaits (0: none)
    call,               \* the calls made so far, and their reply channels
    calls,              \* how many calls were made so far
    max_id,             \* the greatest id assigned so far (0: none yet)
    runs,               \* runs of answered calls so far
    server_binary,      \* the binary flag of the first accepted HELLO response
    fulfilled,          \* times the handshake channel was fulfilled (2: more)
    last_written,       \* the last frame the pump wrote
    hello_ignored,      \* whether a HELLO response was ignored as an extra one
    tx_sent,            \* values the broadcast channel has taken so far
    sub,                \* a SubscribedQuery<Q, T> and its broadcast receiver
    live,               \* a live_query stream and its broadcast receiver
    http,               \* the last request-building operation, with its result
    hang_logged,        \* whether ping_task has logged that the connection hangs
    matched             \* the last raw item matched against the event shapes

connVars == <<conn, refs, opts>>
pumpVars == <<pump, cmd_rx, pending, binary_mode, hello_tx, hello_rx, sock>>
idVars == <<next_id, max_id, runs>>
pingVars == <<ping, last_ping_response, ping_call>>
callVars == <<call, calls>>
helloVars == <<server_binary, fulfilled, hello_ignored>>
subVars == <<tx_sent, sub, live>>
vars == <<connVars, pumpVars, idVars, pingVars, callVars, helloVars, last_written,
          subVars, http, hang_logged, matched>>

\* Whether the pump has accepted a HELLO response.
accepted == fulfilled > 0

\* A written frame: what it carries, its encoding, and whether HELLO had been
\* accepted when it was written.
NoFrame == [what |-> "none", binary |-> FALSE, post |-> FALSE]
Written(what, mode) ==
    [what |-> encode_message(what, mode).what,
     binary |-> encode_message(what, mode).binary, post |-> accepted]

\* connect() up to the spawn of the two tasks: the socket is upgraded, the
\* channels are created, socket_task is about to send HELLO.
Init ==
    /\ conn = "waiting"
    /\ refs = 0
    /\ opts \in BOOLEAN
    /\ pump = "hello"
    /\ cmd_rx = <<>>
    /\ pending = [k \in {} |-> 0]
    /\ next_id = 1
    /\ binary_mode = opts
    /\ hello_tx = TRUE
    /\ hello_rx = "empty"
    /\ sock = "open"
    /\ ping = "sleep"
    /\ last_ping_response = FALSE
    /\ ping_call = 0
    /\ call = [i \in Calls |-> NewCall]
    /\ calls = 0
    /\ max_id = 0
    /\ runs = 0
    /\ server_binary = FALSE
    /\ fulfilled = 0
    /\ last_written = NoFrame
    /\ hello_ignored = FALSE
    /\ tx_sent = 0
    /\ sub = NoSub
    /\ live = NoLive
    /\ http = NoHttp
    /\ hang_logged = FALSE
    /\ matched = NotMatched

\* ------------------------------------------------------------ socket_task
PendingCalls(pend) == {pend[k] : k \in DOMAIN pend}

\* socket_task returns (Ok or Err), or its future is dropped by the
\* supervising select!: the correlation table pend, the command queue q with
\* its receiver, hello_tx and both halves of the socket are dropped. The
\* select! completes, so ping_task is dropped too, with the await it is in.
Stop(pend, q, cl) ==
    /\ pump' = "done"
    /\ ping' = "done"
    /\ ping_call' = 0
    /\ pending' = [k \in {} |-> 0]
    /\ cmd_rx' = <<>>
    /\ call' = [i \in Calls |->
                  IF i = ping_call /\ cl[i].st \in Awaiting
                  THEN Call("returned", 0, NoId, "cancelled")
                  ELSE IF i \in (PendingCalls(pend) \cup Range(q)) /\ cl[i].st = "open"
                  THEN DroppedCall
                  ELSE cl[i]]
    /\ hello_tx' = FALSE
    /\ hello_rx' = IF hello_rx = "empty" THEN "closed" ELSE hello_rx
    /\ sock' = "closed"
    /\ UNCHANGED subVars

\* What Stop and a write decide.
taskVars == <<pump, ping, ping_call, pending, cmd_rx, call, hello_tx, hello_rx, sock>>

\* write.send(encode_message(what, binary_mode)?).await?, then continue: the
\* frame is written, or the write fails and socket_task returns the error.
WriteThen(what, pend, q, cl) ==
    \E sent \in BOOLEAN :
        IF sent
        THEN /\ last_written' = Written(what, binary_mode)
             /\ pending' = pend
             /\ cmd_rx' = q
             /\ call' = cl
             /\ UNCHANGED <<pump, ping, ping_call, hello_tx, hello_rx, sock, subVars>>
        ELSE /\ Stop(pend, q, cl)
             /\ UNCHANGED last_written

\* write.send(encode_message(&hello, binary_mode)?).await?
socket_task_hello ==
    /\ pump = "hello"
    /\ \E sent \in BOOLEAN :
        IF sent
        THEN /\ pump' = "loop"
             /\ last_written' = Written("Hello", binary_mode)
             /\ UNCHANGED <<ping, ping_call, pending, cmd_rx, call, hello_tx,
                            hello_rx, sock, subVars>>
        ELSE /\ Stop(pending, cmd_rx, call)
             /\ UNCHANGED last_written
    /\ UNCHANGED <<connVars, http, hang_logged, matched, idVars, binary_mode, last_ping_response, calls, helloVars>>

\* Some(cmd) = cmd_rx.recv(), Command::Call: the next id is taken, the entry
\* inserted (the call whose entry it replaces loses its sender), the request
\* written.
socket_task_call ==
    /\ pump = "loop"
    /\ cmd_rx # <<>>
    /\ LET i == Head(cmd_rx)
           id == next_id
           lost == IF Num(id) \in DOMAIN pending THEN {pending[Num(id)]} ELSE {}
           cl == [x \in Calls |->
                    IF x = i THEN [call[x] EXCEPT !.id = id]
                    ELSE IF x \in lost /\ call[x].st = "open" THEN DroppedCall
                    ELSE call[x]]
       IN /\ next_id' = fetch_add(next_id)
          /\ max_id' = Max(max_id, id)
          /\ UNCHANGED runs
          /\ WriteThen("Call", pending_insert(pending, id, i), Tail(cmd_rx), cl)
    /\ UNCHANGED <<connVars, http, hang_logged, matched, binary_mode, last_ping_response, calls, helloVars>>

\* A run of calls of other callers, each submitted, given the next id, written
\* and answered by a response carrying its id before the next one is submitted
\* (socket_task_call and the reply branch of dispatch, repeated): the table is
\* as before, the counter has advanced to t. No id of the run is pending, and
\* none is the HELLO id, whose responses never reach a caller.
socket_task_served(t) ==
    /\ pump = "loop"
    /\ sock = "open"
    /\ conn = "ok"
    /\ refs > 0
    /\ runs < MaxRuns
    /\ cmd_rx = <<>>
    /\ t # next_id
    /\ ~InRun(-1, next_id, t)
    /\ \A k \in DOMAIN pending : ~InRun(k.v, next_id, t)
    /\ next_id' = t
    /\ max_id' = IF next_id < t THEN Max(max_id, t - 1) ELSE I32Max
    /\ runs' = runs + 1
    /\ last_written' = Written("Call", binary_mode)
    /\ UNCHANGED <<connVars, http, hang_logged, matched, pumpVars, pingVars, callVars, helloVars, subVars>>

\* ------------------------------------------------------------ tx_broadcast
\* Whether every Sender of the broadcast channel is gone: socket_task holds
\* one until it ends, WsBackendInner the other, and WsBackendInner lives as
\* long as a WsBackend does; a SubscribedQuery<Q, T> owns one, in its client.
tx_closed == pump = "done" /\ refs = 0 /\ sub.st = "none"

\* A send that waits for room in every receiver, as on a bounded queue.
tx_broadcast_send_waits(classes) ==
    /\ Len(sub.rx.q) + Len(classes) <= BroadcastCap
    /\ Len(live.rx.q) + Len(classes) <= BroadcastCap
    /\ tx_sent' = tx_sent + Len(classes)
    /\ sub' = [sub EXCEPT !.rx = rx_push_all(@, classes, tx_sent + 1)]
    /\ live' = [live EXCEPT !.rx = rx_push_all(@, classes, tx_sent + 1)]

\* for tx in tx_array { let _ = tx_broadcast.send(tx); }: with no receiver
\* send returns an error, which is ignored, and the channel takes nothing;
\* otherwise every receiver sees every value.
tx_broadcast_send(classes) ==
    IF sub.st = "none" /\ live.st = "none"
    THEN UNCHANGED subVars
    ELSE /\ tx_sent' = tx_sent + Len(classes)
         /\ sub' = IF sub.st = "none" THEN sub
                   ELSE [sub EXCEPT !.rx = rx_push_all(@, classes, tx_sent + 1)]
         /\ live' = IF live.st \in {"none", "Ended"} THEN live
                    ELSE [live EXCEPT !.rx = rx_push_all(@, classes, tx_sent + 1)]

\* ------------------------------------------------------ frames (the server)
\* The ids a response may carry: none, or a number or a string, among them the
\* HELLO id, every id now pending, and an id no call holds yet.
IdValues == {-1, next_id} \cup {k.v : k \in DOMAIN pending}
ResponseIds == {NoId} \cup {Num(v) : v \in IdValues} \cup {Str(v) : v \in IdValues}

\* What read.next() yields. kind: "Data" (Message::Text or Message::Binary,
\* which the pump treats alike), "Ping", "Pong" (any other message), "Close",
\* "Error" (Some(Err)), "End" (None). body of a data frame: "json" (parses as
\* a Response), "pong" (the literal pong!), "malformed" (fails to parse).
\* hello_ok: the payload parses as a HelloResponse, with binary = hbinary.
\* txs: the classes of the transactions in a result that is a list.
Frame(kind, body, id, result, error, hello_ok, hbinary) ==
    [kind |-> kind, body |-> body, id |-> id, result |-> result, error |-> error,
     hello_ok |-> hello_ok, hbinary |-> hbinary, txs |-> <<>>]

ControlFrames ==
    {Frame(k, "none", NoId, "none", FALSE, FALSE, FALSE) :
        k \in {"Ping", "Pong", "Close", "Error", "End"}}
RawFrames ==
    {Frame("Data", b, NoId, "none", FALSE, FALSE, FALSE) : b \in {"pong", "malformed"}}
ResponseFrames ==
    {Frame("Data", "json", id, res, err, FALSE, FALSE) :
        id \in ResponseIds, res \in Results, err \in BOOLEAN}
HelloFrames ==
    {Frame("Data", "json", Num(-1), "hello", err, TRUE, hb) :
        err \in BOOLEAN, hb \in BOOLEAN}
Frames == ControlFrames \cup RawFrames \cup ResponseFrames \cup HelloFrames

\* The Response built from a data frame: the literal pong! becomes a response
\* with that result and nothing else.
response_of_pong_is_ping(f) ==
    IF f.body = "pong"
    THEN [f EXCEPT !.id = NoId, !.result = "ping", !.error = FALSE]
    ELSE f
response_of(f) ==
    IF f.body = "pong"
    THEN [f EXCEPT !.id = NoId, !.result = "value", !.error = FALSE]
    ELSE f

\* continue: the frame changes nothing.
Continue == UNCHANGED <<taskVars, binary_mode, helloVars, last_written, subVars>>

\* The dispatch of a parsed response r (lines 126-179).
dispatch(r) ==
    IF r.result = "ping"
    THEN /\ WriteThen("Ping", pending, cmd_rx, call)
         /\ UNCHANGED <<binary_mode, helloVars>>
    ELSE IF r.id = Num(-1)
    THEN IF r.result = "none" /\ r.error
         THEN Continue
         ELSE IF r.result = "hello"
         THEN IF ~hello_take(hello_tx)
              THEN /\ hello_ignored' = TRUE
                   /\ UNCHANGED <<taskVars, binary_mode, server_binary, fulfilled,
                                  last_written, subVars>>
              ELSE IF ~r.hello_ok
              THEN /\ Stop(pending, cmd_rx, call)
                   /\ UNCHANGED <<binary_mode, helloVars, last_written>>
              ELSE /\ binary_mode' = r.hbinary
                   /\ hello_tx' = FALSE
                   /\ hello_rx' = IF hello_rx = "empty" THEN "ok" ELSE hello_rx
                   /\ fulfilled' = IF fulfilled < 2 THEN fulfilled + 1 ELSE 2
                   /\ server_binary' = IF accepted THEN server_binary ELSE r.hbinary
                   /\ UNCHANGED <<pump, ping, ping_call, pending, cmd_rx, call, sock,
                                  hello_ignored, last_written, subVars>>
         ELSE Continue
    ELSE IF pending_find(pending, r.id) # {}
    THEN LET k == CHOOSE x \in pending_find(pending, r.id) : TRUE
             i == pending[k]
         IN /\ pending' = [x \in DOMAIN pending \ {k} |-> pending[x]]
            /\ call' = [call EXCEPT ![i] =
                           IF @.st = "open"
                           THEN Call("value", @.id, r.id, into_result(r)) ELSE @]
            /\ UNCHANGED <<pump, ping, ping_call, cmd_rx, hello_tx, hello_rx, sock,
                           binary_mode, helloVars, last_written, subVars>>
    ELSE \* a result that is a list is broadcast element by element, anything
         \* else is logged; the pump goes on
         /\ IF r.result = "list" THEN tx_broadcast_send(r.txs) ELSE UNCHANGED subVars
         /\ UNCHANGED <<taskVars, binary_mode, helloVars, last_written>>

\* Some(message) = read.next()
socket_task_message(f) ==
    /\ pump = "loop"
    /\ sock = "open"
    /\ CASE f.kind = "End" ->
              \* None: this branch of the select! is disabled, and the pump
              \* goes on waiting for commands.
              /\ sock' = "ended"
              /\ UNCHANGED <<pump, ping, ping_call, pending, cmd_rx, call, hello_tx,
                             hello_rx, binary_mode, helloVars, last_written, subVars>>
         [] f.kind \in {"Error", "Close"} ->
              /\ Stop(pending, cmd_rx, call)
              /\ UNCHANGED <<binary_mode, helloVars, last_written>>
         [] f.kind = "Ping" ->
              /\ WriteThen("Ping", pending, cmd_rx, call)
              /\ UNCHANGED <<binary_mode, helloVars>>
         [] f.kind = "Pong" -> Continue
         [] f.kind = "Data" /\ f.body = "malformed" ->
              /\ Stop(pending, cmd_rx, call)
              /\ UNCHANGED <<binary_mode, helloVars, last_written>>
         [] OTHER -> dispatch(response_of(f))
    /\ UNCHANGED <<connVars, http, hang_logged, matched, idVars, last_ping_response, calls>>

\* -------------------------------------------------------------- ping_task
\* sleep(PING_TIMEOUT) has elapsed: with no reply recorded, submit a ping Call
\* (send_and_wait up to the await); otherwise clear the record, after the
\* error! when hung: ping_response_time.elapsed() > HANG_TIMEOUT.
ping_task_tick_every(hung) ==
    /\ ping = "sleep"
    /\ ~hung
    /\ calls < MaxCalls
    /\ calls' = calls + 1
    /\ cmd_rx' = Append(cmd_rx, calls + 1)
    /\ call' = [call EXCEPT ![calls + 1] = OpenCall]
    /\ ping_call' = calls + 1
    /\ ping' = "await"
    /\ UNCHANGED <<last_ping_response, hang_logged>>
    /\ UNCHANGED <<connVars, http, matched, idVars, pump, pending, binary_mode, hello_tx, hello_rx,
                   sock, helloVars, last_written, subVars>>
\* The tick of a keepalive that closes the connection it finds hung.
ping_task_tick_closes(hung) ==
    /\ ping = "sleep"
    /\ IF ~last_ping_response
       THEN /\ ~hung
            /\ calls < MaxCalls
            /\ calls' = calls + 1
            /\ cmd_rx' = Append(cmd_rx, calls + 1)
            /\ call' = [call EXCEPT ![calls + 1] = OpenCall]
            /\ ping_call' = calls + 1
            /\ ping' = "await"
            /\ UNCHANGED <<last_ping_response, hang_logged, pump, pending, hello_tx,
                           hello_rx, sock, subVars>>
       ELSE /\ last_ping_response' = FALSE
            /\ hang_logged' = (hang_logged \/ hung)
            /\ calls' = calls
            /\ IF hung THEN Stop(pending, cmd_rx, call)
               ELSE UNCHANGED <<cmd_rx, call, ping, ping_call, pump, pending, hello_tx,
                                hello_rx, sock, subVars>>
    /\ UNCHANGED <<connVars, http, matched, idVars, binary_mode, helloVars, last_written>>
ping_task_tick(hung) ==
    /\ ping = "sleep"
    /\ IF ~last_ping_response
       THEN /\ ~hung
            /\ calls < MaxCalls
            /\ calls' = calls + 1
            /\ cmd_rx' = Append(cmd_rx, calls + 1)
            /\ call' = [call EXCEPT ![calls + 1] = OpenCall]
            /\ ping_call' = calls + 1
            /\ ping' = "await"
            /\ UNCHANGED <<last_ping_response, hang_logged>>
       ELSE /\ last_ping_response' = FALSE
            /\ hang_logged' = (hang_logged \/ hung)
            /\ UNCHANGED <<cmd_rx, call, calls, ping, ping_call>>
    /\ UNCHANGED <<connVars, http, matched, idVars, pump, pending, binary_mode, hello_tx, hello_rx,
                   sock, helloVars, last_written, subVars>>

\* send_and_wait(&cmd_tx, payload).await? in ping_task: a reply with a result is
\* recorded; any error ends ping_task, and with it the supervising select!,
\* which drops socket_task.
ping_task_reply_alone ==
    /\ ping = "await"
    /\ call[ping_call].st \in {"value", "dropped"}
    /\ call' = [call EXCEPT ![ping_call] = Returned(@)]
    /\ ping_call' = 0
    /\ IF reply_outcome(call[ping_call]) = "ok"
       THEN last_ping_response' = TRUE /\ ping' = "sleep"
       ELSE ping' = "done" /\ UNCHANGED last_ping_response
    /\ UNCHANGED <<connVars, http, hang_logged, matched, idVars, binary_mode, calls, helloVars, last_written,
                   pump, pending, cmd_rx, hello_tx, hello_rx, sock, subVars>>
ping_task_reply ==
    /\ ping = "await"
    /\ call[ping_call].st \in {"value", "dropped"}
    /\ LET cl == [call EXCEPT ![ping_call] = Returned(@)]
       IN IF reply_outcome(call[ping_call]) = "ok"
          THEN /\ last_ping_response' = TRUE
               /\ ping' = "sleep"
               /\ ping_call' = 0
               /\ call' = cl
               /\ UNCHANGED <<pump, pending, cmd_rx, hello_tx, hello_rx, sock, subVars>>
          ELSE /\ Stop(pending, cmd_rx, cl)
               /\ UNCHANGED last_ping_response
    /\ UNCHANGED <<connVars, http, hang_logged, matched, idVars, binary_mode, calls, helloVars, last_written>>

\* ---------------------------------------------------------- send_and_wait
\* get/post: cmd_tx.send(Command::Call { payload, reply_tx }).ok(): the command
\* is queued, or, when the receiver is gone, dropped with its reply_tx.
send_and_wait_send_queues(limit) ==
    /\ conn = "ok"
    /\ refs > 0
    /\ calls < limit
    /\ calls' = calls + 1
    /\ cmd_rx' = Append(cmd_rx, calls + 1)
    /\ call' = [call EXCEPT ![calls + 1] = OpenCall]
    /\ UNCHANGED <<connVars, http, hang_logged, matched, idVars, pingVars, pump, pending,
                   binary_mode, hello_tx, hello_rx, sock, helloVars, last_written, subVars>>
send_and_wait_send(limit) ==
    /\ conn = "ok"
    /\ refs > 0
    /\ calls < limit
    /\ calls' = calls + 1
    /\ IF pump # "done"
       THEN /\ cmd_rx' = Append(cmd_rx, calls + 1)
            /\ call' = [call EXCEPT ![calls + 1] = OpenCall]
       ELSE /\ call' = [call EXCEPT ![calls + 1] = UnsentCall]
            /\ UNCHANGED cmd_rx
    /\ UNCHANGED <<connVars, http, hang_logged, matched, idVars, pingVars, pump, pending, binary_mode, hello_tx,
                   hello_rx, sock, helloVars, last_written, subVars>>

\* Backend::get for WsBackend: the params become the payload, which goes to
\* send_and_wait.
WsBackend_get == send_and_wait_send(MaxCalls)

\* Backend::post for WsBackend: the body is serialised first; when it is no
\* JSON object post returns an error and nothing is sent, otherwise its
\* values become the payload, which goes to send_and_wait.
WsBackend_post(is_object) ==
    IF is_object
    THEN send_and_wait_send(MaxCalls)
    ELSE /\ conn = "ok"
         /\ refs > 0
         /\ calls < MaxCalls
         /\ calls' = calls + 1
         /\ call' = [call EXCEPT ![calls + 1] =
                        Call("returned", 0, NoId, "Expected a JSON object")]
         /\ UNCHANGED <<connVars, http, hang_logged, matched, idVars, pingVars, pumpVars,
                        helloVars, last_written, subVars>>

\* reply_rx.await and what follows it.
send_and_wait_recv(i) ==
    /\ i # ping_call
    /\ call[i].st \in {"value", "dropped"}
    /\ call' = [call EXCEPT ![i] = Returned(@)]
    /\ UNCHANGED <<connVars, http, hang_logged, matched, idVars, pingVars, pumpVars, calls, helloVars, last_written,
                   subVars>>

\* The future of a get/post is dropped while it awaits its reply: reply_rx is
\* dropped with it. The Command already sent stays in the queue or, once the
\* pump took it, its reply_tx stays in the correlation table.
send_and_wait_abandon_removes(i) ==
    /\ i # ping_call
    /\ call[i].st \in Awaiting
    /\ call' = [call EXCEPT ![i].st = "abandoned"]
    /\ pending' = [k \in {x \in DOMAIN pending : pending[x] # i} |-> pending[k]]
    /\ cmd_rx' = SelectSeq(cmd_rx, LAMBDA x : x # i)
    /\ UNCHANGED <<connVars, http, hang_logged, matched, idVars, pingVars, pump, binary_mode, hello_tx, hello_rx,
                   sock, calls, helloVars, last_written, subVars>>
send_and_wait_abandon(i) ==
    /\ i # ping_call
    /\ call[i].st \in Awaiting
    /\ call' = [call EXCEPT ![i].st = "abandoned"]
    /\ UNCHANGED <<connVars, http, hang_logged, matched, idVars, pingVars, pumpVars, calls, helloVars, last_written,
                   subVars>>

\* ---------------------------------------------------------------- connect
\* match timeout(opts.hello_timeout, hello_rx).await: connect() returns. An
\* error return drops cmd_tx (ping_task keeps its clone cmd_tx2) and the
\* JoinHandle of the supervising task, which leaves that task running.
connect_return ==
    /\ conn = "waiting"
    /\ conn' = connect_match(hello_rx)
    /\ refs' = IF connect_match(hello_rx) = "ok" THEN 1 ELSE 0
    /\ UNCHANGED <<opts, http, hang_logged, matched, idVars, pingVars, pumpVars, callVars, helloVars, last_written,
                   subVars>>

\* #[derive(Clone)] WsBackend: one more owner of the Arc.
backend_clone ==
    /\ refs > 0
    /\ refs < MaxClones
    /\ refs' = refs + 1
    /\ UNCHANGED <<conn, opts, http, hang_logged, matched, idVars, pingVars, pumpVars, callVars, helloVars,
                   last_written, subVars>>

\* A WsBackend is dropped (a get/post in progress borrows one, so the last one
\* goes only when no such call is awaited). The last drop drops WsBackendInner:
\* its cmd_tx (ping_task keeps cmd_tx2) and its JoinHandle, which detaches the
\* supervising task.
backend_drop ==
    /\ refs > 0
    /\ refs > 1 \/ \A i \in Calls : i # ping_call => call[i].st \notin Awaiting
    /\ refs' = refs - 1
    /\ UNCHANGED <<conn, opts, http, hang_logged, matched, idVars, pingVars, pumpVars, callVars, helloVars,
                   last_written, subVars>>

\* ------------------------------------------------------ SubscribedQuery<Q, T>
\* SubscribedQuery::new: the subscription takes a client of the session and a
\* new receiver of its broadcast channel, which sees the values sent from now
\* on.
SubscribedQuery_new ==
    /\ conn = "ok"
    /\ refs > 0
    /\ sub.st = "none"
    /\ sub' = Sub("Initial", 0, <<>>, NoReceiver, NotPolled)
    /\ UNCHANGED <<connVars, http, hang_logged, matched, idVars, pingVars, pumpVars, callVars, helloVars,
                   last_written, tx_sent, live>>

\* The Fetching arm of poll_next on m: the fetch task has not finished
\* (Pending), or it returned a result of n documents, or an error.
Fetching_arm(m, n) ==
    IF m.st # "Fetching" THEN m
    ELSE IF call[m.call].st # "returned" THEN [m EXCEPT !.last.ret = "Pending"]
    ELSE IF call[m.call].val = "ok" THEN [m EXCEPT !.st = "Draining", !.items = [k \in 1..n |-> k]]
    ELSE [m EXCEPT !.st = "Waiting", !.last.ret = "Err"]

\* The Draining arm: self.items.pop_front() is yielded, or, with nothing
\* left, on to Waiting.
Draining_arm_pop_back(m) ==
    IF m.st # "Draining" \/ m.last.ret # "none" THEN m
    ELSE IF m.items # <<>>
    THEN [m EXCEPT !.items = SubSeq(@, 1, Len(@) - 1), !.last.ret = "Item"]
    ELSE [m EXCEPT !.st = "Waiting"]
Draining_arm(m) ==
    IF m.st # "Draining" \/ m.last.ret # "none" THEN m
    ELSE IF m.items # <<>> THEN [m EXCEPT !.items = Tail(@), !.last.ret = "Item"]
    ELSE [m EXCEPT !.st = "Waiting"]

\* The Waiting arm.
Waiting_arm(m) ==
    IF m.st # "Waiting" \/ m.last.ret # "none" THEN m
    ELSE LET w == waiting(m.rx, tx_closed, 0)
         IN [m EXCEPT !.st = w.st, !.rx = w.rx, !.last = w.last]

\* Stream::poll_next, one call: the loop is run until it returns. The Initial
\* arm spawns the task that calls client.get(FindAll) (send_and_wait up to its
\* await) and the Fetching arm then finds it unfinished.
poll_next ==
    /\ sub.st # "none"
    /\ \E n \in 0..MaxItems :
        LET m0 == [sub EXCEPT !.last = NotPolled]
            m1 == Fetching_arm(m0, n)
            m2 == Draining_arm(m1)
            m3 == Waiting_arm(m2)
        IN IF m3.st = "Initial" /\ m3.last.ret = "none"
           THEN /\ calls + 1 \in Calls
                /\ calls' = calls + 1
                /\ IF pump # "done"
                   THEN /\ cmd_rx' = Append(cmd_rx, calls + 1)
                        /\ call' = [call EXCEPT ![calls + 1] = OpenCall]
                   ELSE /\ call' = [call EXCEPT ![calls + 1] = DroppedCall]
                        /\ UNCHANGED cmd_rx
                /\ sub' = [m3 EXCEPT !.st = "Fetching", !.call = calls + 1,
                                     !.last.ret = "Pending"]
           ELSE /\ sub' = m3
                /\ UNCHANGED <<calls, call, cmd_rx>>
    /\ UNCHANGED <<connVars, http, hang_logged, matched, idVars, pingVars, pump, pending, binary_mode, hello_tx,
                   hello_rx, sock, helloVars, last_written, tx_sent, live>>

\* Whether the consumer's task polls the stream again: after an item it asks
\* for the next one; after Pending only once the waker it passed in cx is
\* woken. The Fetching arm hands cx to the JoinHandle, which wakes it when the
\* fetch task has finished; the Waiting arm returns Pending from try_recv,
\* which takes no waker.
poll_woken ==
    \/ sub.last.ret \in {"none", "Item", "Err"}
    \/ /\ sub.last.ret = "Pending"
       /\ sub.st = "Fetching"
       /\ call[sub.call].st = "returned"

\* Whether the subscription is Waiting since its last fetch failed: it keeps
\* no handle, and the call of that fetch has returned an error.
fetch_failed ==
    /\ sub.st = "Waiting"
    /\ sub.call # 0
    /\ call[sub.call].st = "returned"
    /\ call[sub.call].val # "ok"

\* poll_next, called by a consumer that awaits the stream.
poll_next_woken == poll_woken /\ poll_next

\* ------------------------------------------------------------- live_query<C>
\* live_query: the subscription of the stream is created, and the initial
\* findAll is submitted, as one call through the session.
live_query ==
    /\ conn = "ok"
    /\ refs > 0
    /\ live.st = "none"
    /\ calls + 1 \in Calls
    /\ calls' = calls + 1
    /\ IF pump # "done"
       THEN /\ cmd_rx' = Append(cmd_rx, calls + 1)
            /\ call' = [call EXCEPT ![calls + 1] = OpenCall]
       ELSE /\ call' = [call EXCEPT ![calls + 1] = DroppedCall]
            /\ UNCHANGED cmd_rx
    /\ live' = Live("Fetching", calls + 1, NoReceiver, <<>>)
    /\ UNCHANGED <<connVars, http, hang_logged, matched, idVars, pingVars, pump, pending, binary_mode, hello_tx,
                   hello_rx, sock, helloVars, last_written, tx_sent, sub>>

\* One poll of the stream: the result of the initial fetch becomes the
\* Initial event (its failure an error item that ends the stream); after it,
\* each item of the subscription is yielded, an event wrapped as Polled.
live_poll_next ==
    /\ live.st \in {"Fetching", "Streaming"}
    /\ IF live.st = "Fetching" /\ call[live.call].st = "returned"
       THEN IF call[live.call].val = "ok"
            THEN live' = [live EXCEPT !.st = "Streaming",
                                      !.out = Append(@, Item("Initial", 0))]
            ELSE live' = [live EXCEPT !.st = "Ended", !.out = Append(@, Item("Err", 0))]
       ELSE IF live_ready(live.st)
       THEN LET n == subscribed_next(live.rx, tx_closed)
            IN CASE n.item.kind = "End" -> live' = [live EXCEPT !.st = "Ended", !.rx = n.rx]
                 [] n.item.kind = "Pending" -> live' = [live EXCEPT !.rx = n.rx]
                 [] OTHER -> live' = [live EXCEPT !.rx = n.rx, !.out = Append(@, n.item)]
       ELSE UNCHANGED live
    /\ UNCHANGED <<connVars, http, hang_logged, matched, idVars, pingVars, pumpVars, callVars, helloVars,
                   last_written, tx_sent, sub>>

\* ------------------------------------------------------- the HTTP clients
\* KvsClient::get(key) with the server answering resp.
KvsClient_get(resp) ==
    /\ http = NoHttp
    /\ http' = Http("KvsClient::get", resp, kvs_get(resp))
    /\ UNCHANGED <<connVars, pumpVars, idVars, pingVars, callVars, helloVars,
                   last_written, subVars, hang_logged, matched>>
\* HttpBackend::domain_request(domain, operation, params) of a backend of the
\* workspace.
domain_request(domain, operation, workspace, params) ==
    /\ http = NoHttp
    /\ http' = Http("HttpBackend::domain_request",
                    [domain |-> domain, operation |-> operation,
                     workspace |-> workspace, params |-> params],
                    domain_request_url(domain, operation, workspace, params))
    /\ UNCHANGED <<connVars, pumpVars, idVars, pingVars, callVars, helloVars,
                   last_written, subVars, hang_logged, matched>>

\* make_rest_api_endpoint(url)
make_rest_api_endpoint(url) ==
    /\ http = NoHttp
    /\ http' = Http("make_rest_api_endpoint", url, make_rest_api_endpoint_url(url))
    /\ UNCHANGED <<connVars, pumpVars, idVars, pingVars, callVars, helloVars,
                   last_written, subVars, hang_logged, matched>>

\* ------------------------------------------------------------ Event::matches
\* The three matches of a stream for the document class C, on one raw item.
Event_matches(C, value) ==
    /\ matched = NotMatched
    /\ matched' = Matched(C, value, TxCreateDoc_matches(C, value),
                          TxUpdateDoc_matches(C, value), TxRemoveDoc_matches(C, value))
    /\ UNCHANGED <<connVars, pumpVars, idVars, pingVars, callVars, helloVars,
                   last_written, subVars, http, hang_logged>>

Next ==
    \/ socket_task_hello
    \/ socket_task_call
    \/ \E f \in Frames : socket_task_message(f)
    \/ \E hung \in BOOLEAN : ping_task_tick(hung)
    \/ ping_task_reply
    \/ send_and_wait_send(MaxCalls)
    \/ \E i \in Calls : send_and_wait_recv(i)
    \/ connect_return
    \/ backend_clone
    \/ backend_drop

Spec == Init /\ [][Next]_vars

\* A long-lived session: the same program with the runs of answered calls that
\* bring the counter to the end of its range, for a client that asked for text
\* frames and a server that answers calls with plain results.
LongInit == Init /\ ~opts

\* The request-building operations, each applied once to one input.
HttpNext ==
    \/ \E resp \in Responses : KvsClient_get(resp)
    \/ \E d \in {"d1", "d2"}, op \in {"op1", "op2"}, w \in {"w1", "w2"},
          p \in JsonValues : domain_request(d, op, w, p)
    \/ \E url \in Urls : make_rest_api_endpoint(url)

HttpSpec == LongInit /\ [][HttpNext]_vars

\* The event shapes, applied once to one raw item for one document class.
EventNext == \E C \in DocClasses, value \in RawItems : Event_matches(C, value)

EventSpec == LongInit /\ [][EventNext]_vars

\* A session whose callers may give up their awaits: the server accepts HELLO,
\* answers pending calls (also with the result "ping") and closes the socket.
AbandonFrames ==
    {Frame("Data", "json", Num(-1), "hello", FALSE, TRUE, FALSE),
     Frame("Close", "none", NoId, "none", FALSE, FALSE, FALSE)} \cup
    {Frame("Data", "json", k, res, FALSE, FALSE, FALSE) :
        k \in DOMAIN pending, res \in {"value", "ping"}}
AbandonNext ==
    \/ socket_task_hello
    \/ socket_task_call
    \/ \E f \in AbandonFrames : socket_task_message(f)
    \/ send_and_wait_send(MaxCalls)
    \/ \E i \in Calls : send_and_wait_recv(i)
    \/ \E i \in Calls : send_and_wait_abandon(i)
    \/ connect_return

AbandonSpec == LongInit /\ [][AbandonNext]_vars

\* The frames of the long-lived session.
LongFrames ==
    {Frame("Data", "json", Num(-1), "hello", FALSE, TRUE, FALSE)} \cup
    {Frame("Data", "json", k, "value", FALSE, FALSE, FALSE) : k \in DOMAIN pending}
LongNext ==
    \/ socket_task_hello
    \/ socket_task_call
    \/ \E f \in LongFrames : socket_task_message(f)
    \/ \E t \in RunTargets : socket_task_served(t)
    \/ send_and_wait_send(MaxCalls + 1)
    \/ \E i \in Calls : send_and_wait_recv(i)
    \/ connect_return

LongSpec == LongInit /\ [][LongNext]_vars

\* A session that may end while its callers go on calling get and post: the
\* server accepts HELLO, answers pending calls and closes the socket.
EndedNext ==
    \/ socket_task_hello
    \/ socket_task_call
    \/ \E f \in LongFrames \cup {Frame("Close", "none", NoId, "none", FALSE, FALSE, FALSE)} :
          socket_task_message(f)
    \/ WsBackend_get
    \/ \E is_object \in BOOLEAN : WsBackend_post(is_object)
    \/ \E i \in Calls : send_and_wait_recv(i)
    \/ connect_return

EndedSpec == LongInit /\ [][EndedNext]_vars

\* A session with a subscription: the server accepts HELLO, answers calls,
\* pushes transactions and closes the socket.
TxArrays == {<<c>> : c \in Classes} \cup {<<c, d>> : c \in Classes, d \in Classes}
TxFrame(classes) ==
    [Frame("Data", "json", NoId, "list", FALSE, FALSE, FALSE) EXCEPT !.txs = classes]
SubFrames ==
    {Frame("Data", "json", Num(-1), "hello", FALSE, TRUE, FALSE),
     Frame("Close", "none", NoId, "none", FALSE, FALSE, FALSE)} \cup
    {Frame("Data", "json", k, "value", err, FALSE, FALSE) :
        k \in DOMAIN pending, err \in BOOLEAN} \cup
    {TxFrame(a) : a \in {x \in TxArrays : tx_sent + Len(x) <= MaxTx}}
SubNext ==
    \/ socket_task_hello
    \/ socket_task_call
    \/ \E f \in SubFrames : socket_task_message(f)
    \/ \E i \in Calls : send_and_wait_recv(i)
    \/ connect_return
    \/ SubscribedQuery_new
    \/ poll_next

SubSpec == LongInit /\ [][SubNext]_vars

\* A session with a subscription on which the server also sends arrays under
\* every kind of id: the HELLO id, an id of the other tag, an id no call
\* holds, and the ids now pending.
PushFrames ==
    SubFrames \cup
    {[Frame("Data", "json", id, "list", FALSE, FALSE, FALSE) EXCEPT !.txs = a] :
        id \in {Num(-1), Str(1), Num(next_id)} \cup DOMAIN pending,
        a \in {x \in TxArrays : tx_sent + Len(x) <= MaxTx}}
PushNext ==
    \/ socket_task_hello
    \/ socket_task_call
    \/ \E f \in PushFrames : socket_task_message(f)
    \/ \E i \in Calls : send_and_wait_recv(i)
    \/ connect_return
    \/ SubscribedQuery_new
    \/ poll_next

PushSpec == LongInit /\ [][PushNext]_vars

\* A session with a live query.
LiveNext ==
    \/ socket_task_hello
    \/ socket_task_call
    \/ \E f \in SubFrames : socket_task_message(f)
    \/ \E i \in Calls : send_and_wait_recv(i)
    \/ connect_return
    \/ backend_drop
    \/ live_query
    \/ live_poll_next

LiveSpec == LongInit /\ [][LiveNext]_vars

\* SubSpec where the runtime polls the tasks and the consumer polls the stream
\* whenever they can proceed.
FairSubSpec ==
    /\ SubSpec
    /\ WF_vars(socket_task_hello)
    /\ WF_vars(socket_task_call)
    /\ WF_vars(connect_return)
    /\ WF_vars(poll_next)
    /\ \A i \in Calls : WF_vars(send_and_wait_recv(i))

\* A session with a subscription whose consumer awaits the stream
\* (stream.next().await): it polls when its waker was woken, and the runtime
\* polls the tasks whenever they can proceed.
WakeNext ==
    \/ socket_task_hello
    \/ socket_task_call
    \/ \E f \in SubFrames : socket_task_message(f)
    \/ \E i \in Calls : send_and_wait_recv(i)
    \/ connect_return
    \/ SubscribedQuery_new
    \/ poll_next_woken

WakeSpec ==
    /\ LongInit /\ [][WakeNext]_vars
    /\ WF_vars(socket_task_hello)
    /\ WF_vars(socket_task_call)
    /\ WF_vars(connect_return)
    /\ WF_vars(poll_next_woken)
    /\ \A i \in Calls : WF_vars(send_and_wait_recv(i))

\* A session with a subscription and the keepalive task, whose server also
\* answers with the literal pong!.
PongFrame == Frame("Data", "pong", NoId, "none", FALSE, FALSE, FALSE)
PongFrames == SubFrames \cup {PongFrame}
PongNext ==
    \/ socket_task_hello
    \/ socket_task_call
    \/ \E f \in PongFrames : socket_task_message(f)
    \/ \E hung \in BOOLEAN : ping_task_tick(hung)
    \/ ping_task_reply
    \/ connect_return
    \/ SubscribedQuery_new
    \/ poll_next

PongSpec == LongInit /\ [][PongNext]_vars

\* The runtime polls the tasks whenever they can proceed, timers fire, and
\* callers poll their awaits; nothing is assumed of what the server sends or
\* of what callers submit.
FairSpec ==
    /\ Spec
    /\ WF_vars(socket_task_hello)
    /\ WF_vars(socket_task_call)
    /\ WF_vars(\E hung \in BOOLEAN : ping_task_tick(hung))
    /\ WF_vars(ping_task_reply)
    /\ WF_vars(connect_return)
    /\ \A i \in Calls : WF_vars(send_and_wait_recv(i))

\* ------------------------------------------------------------ properties
TimedOut == "timed out waiting for HELLO"
ChannelClosed == "HELLO channel closed unexpectedly"
ClosedBeforeReply == "connection closed before reply"

\* C1: a reply channel is only ever fulfilled with the response whose id is
\* the request id the pump gave to that call: no call gets another call's
\* response, whatever the order of the responses.
C1_NoCrossTalk ==
    \A i \in Calls : call[i].st = "value" => call[i].rid = Num(call[i].id)

\* C1, its case: two calls in flight, the later one answered first.
C1_Witness ==
    \E i, j \in Calls :
        /\ call[i].st = "open" /\ Num(call[i].id) \in DOMAIN pending
        /\ call[j].st = "value"
        /\ call[i].id < call[j].id

\* C2 (as claimed): every id the pump assigns is greater than every id it
\* assigned before on the connection, and is neither 0 nor the HELLO id -1,
\* however many calls are made.
C2_IdsIncrease ==
    [][next_id' # next_id => (next_id > max_id /\ next_id # 0 /\ next_id # -1)]_vars

\* C3: once a HELLO response has been accepted, no later frame fulfils the
\* handshake channel again or changes the negotiated mode.
C3_HelloOnce ==
    [][accepted => (fulfilled' = fulfilled /\ binary_mode' = binary_mode
                    /\ hello_rx' = hello_rx)]_vars

\* C3, its case: a second HELLO response arrived after the first was accepted,
\* and was ignored.
C3_Witness == hello_ignored /\ fulfilled = 1

\* C4 (as claimed): once the socket has closed, however the pump saw it, every
\* call still awaiting its reply eventually returns "connection closed before
\* reply".
C4_ClosedCallsResolve ==
    \A i \in Calls :
        (sock # "open" /\ call[i].st = "open" /\ i # ping_call)
            ~> (call[i].st = "returned" /\ call[i].val = ClosedBeforeReply)

\* C5: connect() returns a session only after the pump has accepted a HELLO
\* response; when none was accepted, what it returns is an error and there is
\* no session.
C5_SessionNeedsHello ==
    /\ conn = "ok" => accepted
    /\ refs > 0 => conn = "ok"
    /\ (conn # "waiting" /\ ~accepted) => (conn \in {TimedOut, ChannelClosed} /\ refs = 0)

\* C5, its case: connect() has returned a session.
C5_Witness == conn = "ok" /\ refs = 1 /\ accepted

\* C6 (as claimed): after connect() has returned the timeout error, the pump
\* and the keepalive task no longer run: no further frame is written to the
\* socket, no HELLO response is accepted from it, and no ping is submitted.
C6_TimeoutStopsTasks ==
    [][conn = TimedOut =>
         /\ last_written' = last_written
         /\ fulfilled' = fulfilled
         /\ calls' = calls]_vars

\* C7 (as claimed): once the last WsBackend clone of a session is dropped, the
\* pump and the keepalive task eventually exit, even if the socket stays open
\* (a socket that closes ends them by another path).
C7_LastDropStopsTasks ==
    (conn = "ok" /\ refs = 0) ~> ((pump = "done" /\ ping = "done") \/ sock # "open")

\* C8: when connect() returns and the handshake channel was dropped without a
\* response, the error is "HELLO channel closed unexpectedly", and only then;
\* when the channel is still empty it is the timeout error, another one.
C8_ClosedIsDistinct ==
    [][(conn = "waiting" /\ conn' # "waiting") =>
         /\ (hello_rx = "closed") <=> (conn' = ChannelClosed)
         /\ (hello_rx = "empty") <=> (conn' = TimedOut)
         /\ hello_rx = "closed" => ~accepted]_vars

\* C8, its case: the pump ended before it accepted HELLO, and connect()
\* returned.
C8_Witness == conn = ChannelClosed /\ pump = "done" /\ ~accepted

\* C9: every frame written after HELLO was accepted is binary exactly when the
\* accepted HELLO response said binary, whatever the client asked for, and the
\* mode stays the accepted one.
C9_ServerDecidesMode ==
    /\ last_written.post => last_written.binary = server_binary
    /\ accepted => binary_mode = server_binary

\* C9, its case: a Call frame written after HELLO, in the mode the client did
\* not ask for.
C9_Witness ==
    /\ last_written.post
    /\ last_written.what = "Call"
    /\ last_written.binary # opts

\* C10 (as claimed): an entry leaves the correlation table only when a
\* response with its id arrives, which fulfils its reply channel, or when the
\* pump ends; a fulfilled call has no entry left, and no entry outlives the
\* pump.
C10_RemovedOnce ==
    [][/\ \A k \in DOMAIN pending :
            (k \notin DOMAIN pending' \/ pending'[k] # pending[k]) =>
                \/ pump' = "done"
                \/ call'[pending[k]].st = "value" /\ call'[pending[k]].rid = k
       /\ \A k \in DOMAIN pending' : call'[pending'[k]].st = "open"
       /\ pump' = "done" => DOMAIN pending' = {}]_vars

\* C11 (as claimed): when the receiver of a subscription reports that it
\* lagged, the poll that is told so yields an error item to the consumer.
C11_LagIsReported ==
    [][(sub.rx.lagged /\ ~sub'.rx.lagged) => sub'.last.ret = "Err"]_vars

\* C12: a poll that takes only transactions of other classes out of the
\* receiver yields no item and starts no fetch: it returns Pending with the
\* subscription waiting for the next transaction.
C12_OtherClassSkipped ==
    [][LET taken == IF tx_sent' = tx_sent /\ Len(sub'.rx.q) < Len(sub.rx.q)
                    THEN SubSeq(sub.rx.q, 1, Len(sub.rx.q) - Len(sub'.rx.q))
                    ELSE <<>>
       IN (/\ taken # <<>>
           /\ ~sub.rx.lagged
           /\ \A k \in DOMAIN taken : taken[k].class # "C")
          => /\ sub'.last.ret = "Pending"
             /\ sub'.st = "Waiting"
             /\ sub'.items = <<>>
             /\ calls' = calls
             /\ cmd_rx' = cmd_rx]_vars

\* C12, its case: the last poll skipped a transaction of another class and
\* found nothing else.
C12_Witness ==
    /\ sub.st = "Waiting"
    /\ sub.last.skipped > 0
    /\ sub.last.saw = "empty"

\* C13: among the events a live_query stream yields (error items apart), the
\* first is Initial, there is no other Initial, and the Polled events that
\* follow wrap pushed transactions in the order they were broadcast; no Polled
\* event comes before Initial.
C13_InitialThenPolled ==
    LET ev == SelectSeq(live.out, LAMBDA x : x.kind \in {"Initial", "Polled"})
    IN \A k \in DOMAIN ev :
          /\ (ev[k].kind = "Initial") <=> (k = 1)
          /\ k > 2 => ev[k - 1].seq < ev[k].seq

\* C13, its case: the stream has yielded Initial and then two Polled events,
\* the first of them for the first transaction pushed.
C13_Witness ==
    /\ Len(live.out) >= 3
    /\ live.out[1].kind = "Initial"
    /\ live.out[2].kind = "Polled" /\ live.out[2].seq = 1
    /\ live.out[3].kind = "Polled"

\* C14 (as claimed): once the socket has closed and the pump has ended, a
\* subscription of the session eventually yields the end of its stream.
C14_StreamEndsOnClose ==
    (sub.st # "none" /\ pump = "done") ~> (sub.last.ret = "End")

\* C20: a push is never held up by a receiver: while the pump reads the
\* socket, a frame of pushed transactions can be handled whatever the
\* subscriptions hold, and handling it leaves the pump in its loop with its
\* queue and table as they were. A receiver keeps at most the capacity; when
\* values it had not read are overwritten they are its oldest, and it is
\* marked as lagging, which its next try_recv reports.
C20_BroadcastNeverBlocks ==
    /\ [](pump = "loop" /\ sock = "open" =>
            \A a \in TxArrays : ENABLED socket_task_message(TxFrame(a)))
    /\ [](Len(sub.rx.q) <= BroadcastCap)
    /\ [](sub.rx.lagged => try_recv(sub.rx, tx_closed).res = "Lagged")
    /\ [][tx_sent' > tx_sent =>
            /\ pump' = "loop"
            /\ UNCHANGED <<cmd_rx, pending, call, sock>>
            /\ LET n == tx_sent' - tx_sent
                   over == Len(sub.rx.q) + n - BroadcastCap
               IN sub.st # "none" =>
                    /\ Len(sub'.rx.q) = IF over > 0 THEN BroadcastCap
                                        ELSE Len(sub.rx.q) + n
                    /\ sub'.rx.q[Len(sub'.rx.q)].seq = tx_sent'
                    /\ over > 0 => sub'.rx.lagged
                    /\ (over > 0 /\ over < Len(sub.rx.q)) =>
                           sub'.rx.q[1] = sub.rx.q[over + 1]]_vars

\* C20, its case: a subscription that has fallen a full channel behind and
\* lost values, with the pump still in its loop.
C20_Witness ==
    /\ pump = "loop"
    /\ sub.rx.lagged
    /\ Len(sub.rx.q) = BroadcastCap

\* C15 (as claimed): a get/post whose reply channel was fulfilled with a
\* response that has neither a result nor an error returns successfully.
C15_EmptyReplyIsSuccess ==
    [][\A i \in Calls :
         (/\ i # ping_call
          /\ call[i].st = "value" /\ call[i].val = "OkNone"
          /\ call'[i].st = "returned")
         => call'[i].val = "ok"]_vars

\* C16: a reply channel fulfilled by a response is given the service error
\* exactly when the response has its error field set, whatever its result;
\* a call returns the service error exactly when its channel was given one,
\* and a call whose sender was dropped returns "connection closed before
\* reply".
C16_ServiceErrorDistinct ==
    [][/\ \A f \in Frames : socket_task_message(f) =>
            \A i \in Calls :
               (call[i].st = "open" /\ call'[i].st = "value") =>
                  ((call'[i].val = "Err") <=> response_of(f).error)
       /\ \A i \in Calls :
            (call[i].st \in {"value", "dropped"} /\ call'[i].st = "returned"
             /\ call'[i].val # "cancelled") =>
               /\ (call'[i].val = "service error") <=>
                     (call[i].st = "value" /\ call[i].val = "Err")
               /\ (call'[i].val = ClosedBeforeReply) <=> (call[i].st = "dropped")]_vars

\* C16, its case: one call has returned the service error and another
\* "connection closed before reply".
C16_Witness ==
    \E i, j \in Calls :
        /\ call[i].st = "returned" /\ call[i].val = "service error"
        /\ call[j].st = "returned" /\ call[j].val = ClosedBeforeReply

\* C17 (as claimed): a frame with the HELLO id and the result "hello" whose
\* payload does not parse as a HelloResponse leaves the pump in its loop.
C17_BadHelloTolerated ==
    [][\A f \in Frames :
         (/\ socket_task_message(f)
          /\ f.kind = "Data" /\ f.body = "json"
          /\ f.id = Num(-1) /\ f.result = "hello" /\ ~f.hello_ok)
         => pump' = "loop"]_vars

\* C18 (as claimed): a data frame that does not parse as a Response fails at
\* most one of the pending calls; the others stay pending.
C18_MalformedFailsOneCall ==
    [][\A f \in Frames :
         (socket_task_message(f) /\ f.kind = "Data" /\ f.body = "malformed")
         => Cardinality({k \in DOMAIN pending :
                           /\ call[pending[k]].st = "open"
                           /\ \/ k \notin DOMAIN pending'
                              \/ call'[pending[k]].st # "open"}) <= 1]_vars

\* C19: the pump and the keepalive task end together; when they end, the
\* correlation table and the command queue go with them and every call that
\* was awaiting a reply not yet given has its sender dropped (the keepalive's
\* own ping is cancelled with its task), so that no call is left waiting.
C19_TasksEndTogether ==
    /\ []((pump = "done") <=> (ping = "done"))
    /\ [](pump = "done" =>
            /\ DOMAIN pending = {}
            /\ cmd_rx = <<>>
            /\ \A i \in Calls : call[i].st # "open")
    /\ [][(pump # "done" /\ pump' = "done") =>
            \A i \in Calls :
               call[i].st = "open" =>
                  \/ call'[i].st = "dropped"
                  \/ i = ping_call /\ call'[i].val = "cancelled"]_vars

\* C19, its case: the tasks have ended after a call returned an error, and a
\* call that was pending then has lost its sender.
C19_Witness ==
    /\ pump = "done" /\ ping = "done"
    /\ \E i, j \in Calls :
          /\ call[i].st = "returned"
          /\ call[i].val \in {"service error", "server didn't return a result"}
          /\ call[j].st = "dropped"

\* C21: a response whose result is an array and whose id matches no pending
\* call (and is not the HELLO id, whose responses are dealt with before) is
\* broadcast element by element: the subscriber's receiver holds the values
\* in the order sent, within the array and after those of earlier arrays,
\* with none missing unless it lagged, and it is read oldest first.
C21_BroadcastInOrder ==
    /\ [](\A k \in 1..Len(sub.rx.q) : sub.rx.q[k].seq = tx_sent - Len(sub.rx.q) + k)
    /\ [][\A f \in PushFrames :
            (/\ socket_task_message(f)
             /\ f.result = "list" /\ ~f.error
             /\ f.id # Num(-1) /\ f.id \notin DOMAIN pending
             /\ sub.st # "none")
            => LET sent == [k \in 1..Len(f.txs) |-> Tx(f.txs[k], tx_sent + k)]
                   all == sub.rx.q \o sent
                   lost == Max(0, Len(all) - BroadcastCap)
               IN /\ tx_sent' = tx_sent + Len(f.txs)
                  /\ sub'.rx.q = SubSeq(all, lost + 1, Len(all))
                  /\ lost = 0 => sub'.rx.lagged = sub.rx.lagged]_vars
    /\ [][(tx_sent' = tx_sent /\ sub.st # "none") =>
            \E d \in 0..Len(sub.rx.q) :
                sub'.rx.q = SubSeq(sub.rx.q, d + 1, Len(sub.rx.q))]_vars

\* C21, its case: a receiver that has not lagged holds the two elements of one
\* array, of different classes, sent after an earlier array.
C21_Witness ==
    /\ ~sub.rx.lagged
    /\ sub.last.saw # "lag"
    /\ Len(sub.rx.q) >= 2
    /\ sub.rx.q[1].seq > 1
    /\ sub.rx.q[1].class # sub.rx.q[2].class

C23_TagsDistinct ==
    /\ [](\A k \in DOMAIN pending :
             k.tag = "Num" /\ pending_find(pending, Str(k.v)) = {})
    /\ [][\A f \in PushFrames :
            (socket_task_message(f) /\ f.id.tag = "Str")
            => (pending' = pending /\ call' = call)]_vars

\* C23, its case: the call with the integer id 1 is pending, and the pump is
\* about to read a response whose id is the string 1.
C23_Witness ==
    /\ Num(1) \in DOMAIN pending
    /\ call[pending[Num(1)]].st = "open"
    /\ sub.st # "none"
    /\ ENABLED socket_task_message(
           [Frame("Data", "json", Str(1), "list", FALSE, FALSE, FALSE)
               EXCEPT !.txs = <<"C">>])

\* C27 (as claimed): a response whose id is that of a pending get/post takes
\* the entry out of the table and fulfils the call's reply channel with that
\* response, whatever its result (the socket staying usable).
C27_MatchedResponseDelivered ==
    [][\A f \in Frames :
         (/\ socket_task_message(f)
          /\ f.kind = "Data" /\ f.body = "json"
          /\ f.id # Num(-1)
          /\ f.id \in DOMAIN pending
          /\ pending[f.id] # ping_call
          /\ call[pending[f.id]].st = "open"
          /\ pump' = "loop")
         => /\ f.id \notin DOMAIN pending'
            /\ call'[pending[f.id]].st = "value"
            /\ call'[pending[f.id]].rid = f.id]_vars

\* C28 (as claimed): a response with the HELLO id -1 that carries an error,
\* and whose payload would otherwise be a well-formed HELLO response, is
\* ignored: the table, the negotiated mode, the handshake channel, the calls,
\* the broadcast channel and the pump stay as they are.
C28_SentinelErrorIgnored ==
    [][\A f \in Frames :
         (/\ socket_task_message(f)
          /\ f.kind = "Data" /\ f.body = "json"
          /\ f.id = Num(-1)
          /\ f.error
          /\ f.result \in {"none", "hello"}
          /\ f.result = "hello" => f.hello_ok)
         => /\ pending' = pending
            /\ binary_mode' = binary_mode
            /\ hello_rx' = hello_rx
            /\ hello_tx' = hello_tx
            /\ call' = call
            /\ tx_sent' = tx_sent
            /\ pump' = "loop"]_vars

\* C29 (as claimed): a transaction of the subscribed class that is in the
\* receiver of a waiting SubscribedQuery<Q, T> eventually starts a new findAll,
\* for a consumer that awaits the stream and does not poll it in a loop
\* (unless the socket closes first).
C29_TxCausesRefetch ==
    (/\ sub.st = "Waiting"
     /\ calls < MaxCalls + 1
     /\ \E k \in DOMAIN sub.rx.q : sub.rx.q[k].class = "C")
        ~> (sub.st \in {"Fetching", "Draining"} \/ sock # "open")

C24_KvsGetOutcomes ==
    (http.fn = "KvsClient::get" /\ http.arg.sent /\ http.arg.read) =>
        LET resp == http.arg
        IN /\ is_success(resp.status) =>
                 http.ret = [kind |-> "Some", bytes |-> resp.body]
           /\ resp.status = 404 => http.ret = [kind |-> "None"]
           /\ (~is_success(resp.status) /\ resp.status # 404) =>
                 http.ret = [kind |-> "Err", error |-> "HttpError",
                             status |-> resp.status, body |-> resp.body]

\* C24, its case: the server answered 404 and get returned Ok(None).
C24_Witness ==
    /\ http.fn = "KvsClient::get"
    /\ http.arg.sent /\ http.arg.status = 404
    /\ http.ret.kind = "None"

\* C25 (as claimed): domain_request asks for the path /api/v1/{kebab spelling
\* of the method whose WebSocket verb is "domainRequest"}/{domain}/{operation}/
\* {workspace}, with the JSON text of the params as the one query value
\* "params".
C25_DomainRequestPath ==
    http.fn = "HttpBackend::domain_request" =>
        LET m == CHOOSE x \in Methods : camel(x) = "domainRequest"
            a == http.arg
        IN /\ http.ret.path =
                 <<"api", "v1", kebab(m), a.domain, a.operation, a.workspace>>
           /\ http.ret.query = <<[name |-> "params", value |-> JsonText(a.params)]>>

C31_OnePingAtATime ==
    /\ []((ping = "await") <=> (ping_call # 0))
    /\ [](ping_call # 0 => call[ping_call].st \in Awaiting)
    /\ [](last_ping_response => ping # "await")
    /\ []((ping = "sleep" /\ ~last_ping_response /\ calls < MaxCalls)
            => ENABLED (ping_task_tick(FALSE) /\ ping' = "await"))
    /\ [][/\ (ping = "sleep" /\ ping' = "await") =>
                  /\ ~last_ping_response
                  /\ ping_call = 0
                  /\ calls' = calls + 1
                  /\ ping_call' = calls'
                  /\ cmd_rx' = Append(cmd_rx, ping_call')
                  /\ call'[ping_call'] = OpenCall
                  /\ pending' = pending
                  /\ last_written' = last_written
          /\ (last_ping_response /\ ~last_ping_response') =>
                  /\ ping = "sleep" /\ ping' = "sleep"
                  /\ calls' = calls
                  /\ cmd_rx' = cmd_rx
                  /\ call' = call
          /\ (~last_ping_response /\ last_ping_response') =>
                  /\ ping = "await" /\ ping' = "sleep"
                  /\ call[ping_call].st = "value" /\ call[ping_call].val = "OkSome"
                  /\ call'[ping_call].st = "returned"]_vars

\* C31, its case: before connect() has returned (so every call is a ping),
\* the first ping was answered, a tick cleared the record, and the tick after
\* it submitted the second ping, which is awaited.
C31_Witness ==
    /\ conn = "waiting"
    /\ call[1].st = "returned" /\ call[1].val = "ok"
    /\ ~last_ping_response
    /\ ping = "await" /\ ping_call = 2

\* C32: while the pump reads the socket, a frame that is the literal pong! is
\* handled as a response and not as a payload that fails to parse, and
\* handling it changes nothing: the pump stays in its loop, the table, the
\* calls and the receivers of the broadcast channel are as before, nothing
\* is written. The keepalive's ping is fulfilled only by a parsed response
\* whose id is the ping's request id, which is then in the table.
C32_PongCompletesNothing ==
    /\ []((pump = "loop" /\ sock = "open") =>
            /\ ENABLED (socket_task_message(PongFrame) /\ UNCHANGED vars)
            /\ ~ENABLED (socket_task_message(PongFrame) /\ ~UNCHANGED vars))
    /\ [][(ping_call # 0 /\ call[ping_call].st = "open"
           /\ call'[ping_call].st = "value") =>
            \E f \in PongFrames :
                /\ socket_task_message(f)
                /\ f.kind = "Data" /\ f.body = "json"
                /\ f.id = Num(call[ping_call].id)
                /\ f.id \in DOMAIN pending
                /\ pending[f.id] = ping_call]_vars

\* C32, its case: the keepalive's ping is in the table, unanswered, a
\* subscription holds a transaction it has not read, and the pump reads the
\* literal pong!, which leaves this very state.
C32_Witness ==
    /\ ping_call # 0
    /\ call[ping_call].st = "open"
    /\ Num(call[ping_call].id) \in DOMAIN pending
    /\ sub.st # "none" /\ sub.rx.q # <<>>
    /\ ENABLED (socket_task_message(PongFrame) /\ UNCHANGED vars)

\* C33 (as claimed): no Call frame, a keepalive ping included, is written
\* before a HELLO response has been accepted.
C33_NoCallBeforeHello ==
    last_written.what = "Call" => last_written.post

\* C34: the tick of the keepalive task that finds the connection hung (more
\* than HANG_TIMEOUT since the recorded reply) logs and clears the record as
\* any other tick does: the socket, the pump, the keepalive task, the table,
\* the queue and every call are as before, and nothing is written.
C34_HangOnlyLogged ==
    [][(last_ping_response /\ ping_task_tick(TRUE)) =>
         /\ hang_logged'
         /\ ~last_ping_response'
         /\ sock' = sock
         /\ pump' = pump
         /\ ping' = "sleep"
         /\ pending' = pending
         /\ cmd_rx' = cmd_rx
         /\ call' = call
         /\ hello_rx' = hello_rx
         /\ last_written' = last_written]_vars

\* C34, its case: the hang was logged, and the pump and the keepalive task
\* run on, on an open socket, with a call waiting in the table.
C34_Witness ==
    /\ hang_logged
    /\ sock = "open" /\ pump = "loop" /\ ping = "sleep"
    /\ \E k \in DOMAIN pending : call[pending[k]].st = "open"

\* C35: a raw item matches the create shape of the class C only if its
\* _class is the string core:class:TxCreateDoc, the update shape only if it
\* is core:class:TxUpdateDoc, the remove shape only if it is
\* core:class:TxRemoveDoc, and any of them only if its objectClass is the
\* string that is C's class; so it matches at most one shape, and none when
\* its objectClass is another class or no string.
C35_ShapesScopedToClass ==
    matched # NotMatched =>
        LET v == matched.value
            n == Cardinality({x \in {"create", "update", "remove"} : matched[x]})
        IN /\ matched.create =>
                 (v._class = JsonValue("String", TxCreateDoc)
                  /\ v.objectClass = JsonValue("String", matched.class))
           /\ matched.update =>
                 (v._class = JsonValue("String", TxUpdateDoc)
                  /\ v.objectClass = JsonValue("String", matched.class))
           /\ matched.remove =>
                 (v._class = JsonValue("String", TxRemoveDoc)
                  /\ v.objectClass = JsonValue("String", matched.class))
           /\ n <= 1
           /\ v.objectClass # JsonValue("String", matched.class) => n = 0

\* C35, its case: the removal of a document of C was matched against the
\* shapes of C and matched the remove shape alone.
C35_Witness ==
    /\ matched.class = "C"
    /\ matched.value = RawItem(JsonValue("String", TxRemoveDoc), JsonValue("String", "C"))
    /\ matched.remove /\ ~matched.create /\ ~matched.update

\* C36 (as claimed): every get or post issued after the pump has ended has
\* its command dropped unsent, with its reply sender: the queue, the table
\* and the id counter stay as they are and nothing is written; the call can
\* return at once, and returns "connection closed before reply".
C36_EndedSessionFails ==
    /\ [][(pump = "done" /\ (WsBackend_get \/ \E b \in BOOLEAN : WsBackend_post(b))) =>
            /\ call'[calls'] = UnsentCall
            /\ cmd_rx' = cmd_rx
            /\ pending' = pending
            /\ next_id' = next_id
            /\ last_written' = last_written]_vars
    /\ [](\A i \in Calls : call[i] = UnsentCall => ENABLED send_and_wait_recv(i))
    /\ [][\A i \in Calls :
            (call[i] = UnsentCall /\ call'[i] # call[i]) =>
               call'[i] = Call("returned", 0, NoId, ClosedBeforeReply)]_vars

\* C36 (as amended): the same of every get, and of every post whose body
\* serialises to a JSON object.
C36_EndedSessionFailsSent ==
    /\ [][(pump = "done" /\ (WsBackend_get \/ WsBackend_post(TRUE))) =>
            /\ call'[calls'] = UnsentCall
            /\ cmd_rx' = cmd_rx
            /\ pending' = pending
            /\ next_id' = next_id
            /\ last_written' = last_written]_vars
    /\ [](\A i \in Calls : call[i] = UnsentCall => ENABLED send_and_wait_recv(i))
    /\ [][\A i \in Calls :
            (call[i] = UnsentCall /\ call'[i] # call[i]) =>
               call'[i] = Call("returned", 0, NoId, ClosedBeforeReply)]_vars

\* C36, its case: on a session whose pump has ended, a call was issued,
\* whose command was not taken, and an earlier one like it has returned
\* "connection closed before reply".
C36_Witness ==
    /\ pump = "done"
    /\ conn = "ok"
    /\ \E i, j \in Calls :
          /\ call[i] = Call("returned", 0, NoId, ClosedBeforeReply)
          /\ call[j] = UnsentCall

\* C37 (as claimed): the poll that finds the fetch failed yields one error
\* item and leaves the subscription Waiting with an empty buffer; no second
\* error item follows for that fetch and the stream does not end; and a
\* matching transaction that comes after the failure eventually starts a
\* new findAll, for a consumer that awaits the stream (unless the socket
\* closes first).
C37_FailedFetchStaysUsable ==
    /\ [][(/\ sub.st = "Fetching"
           /\ call[sub.call].st = "returned" /\ call[sub.call].val # "ok"
           /\ sub' # sub /\ tx_sent' = tx_sent)
          => /\ sub'.last.ret = "Err"
             /\ sub'.st = "Waiting"
             /\ sub'.items = <<>>
             /\ sub'.rx = sub.rx]_vars
    /\ [][(fetch_failed /\ sub' # sub /\ tx_sent' = tx_sent)
          => sub'.last.ret \notin {"Err", "End"}]_vars
    /\ (/\ fetch_failed
         /\ calls < MaxCalls + 1
         /\ \E k \in DOMAIN sub.rx.q : sub.rx.q[k].class = "C")
            ~> (sub.st \in {"Fetching", "Draining"} \/ sock # "open")

====
